---- MODULE Spec2Model ----
(***************************************************************************)
(* Model of BinarySearchTree<Key, Value> (BinarySearchTree.hpp): an        *)
(* unbalanced binary search tree with parent pointers and duplicate keys,  *)
(* built with the default USING_RECURSIVE_FUNCTIONS selection.             *)
(*                                                                         *)
(* The free store is modelled explicitly: a node is an address in NodeIds, *)
(* heap gives the fields of every address, alloc is the set of addresses   *)
(* obtained from new and not yet passed to delete.  Two tree objects       *)
(* exist, as in main(): studentGrades (tree 1) and gradeBook (tree 2).     *)
(*                                                                         *)
(* The program compares addresses for equality only, so two heaps that     *)
(* differ by a renaming of the addresses are the same program state.  Each *)
(* operation therefore ends by renaming the addresses to a canonical       *)
(* numbering (Canon); last.released keeps the addresses deleted by the     *)
(* operation as they were named in the state the operation started from.   *)
(*                                                                         *)
(* last records the call that has just completed, with what it returned,   *)
(* threw or printed; Return is the caller going on to its next statement.  *)
(*                                                                         *)
(* Spec is any sequence of calls on the two trees.  SpecMain is main().     *)
(* SpecStamped is Spec with inserts whose values record the order of the   *)
(* inserts.  SpecBoth runs the recursive build on tree 1 and the iterative *)
(* build (USING_ITERATIVE_FUNCTIONS) on tree 2 with the same calls.        *)
(* SpecDeep is one tree grown by insert and remove to MaxDeep nodes, the   *)
(* size at which a node with two children has a parent and a successor    *)
(* that is not its right child and has a right child of its own.          *)
(***************************************************************************)
EXTENDS Integers, Sequences, FiniteSets, TLC

\* ---- bounds of the model -------------------------------------------------
MaxNodes == 3      \* insert is enabled while fewer nodes than this are alive
MaxCopy  == 6      \* a copy is made if no more nodes than this are alive after it
MaxKey   == 3      \* keys are 1..MaxKey
MaxDeep    == 6    \* SpecDeep: insert is enabled while the tree has fewer nodes
MaxDeepKey == 4    \* SpecDeep: keys are 1..MaxDeepKey

\* ---- main() -----------------------------------------------------------------
\* The keys main() inserts, in the order of its insert statements, and the
\* same keys in ascending order of std::string's operator<.  A key is
\* modelled by its rank in that order and a grade by its hundredths.
MainKeys == <<"Ricardo", "Ellen", "Chen", "Kevin", "Kumar">>
Names    == <<"Chen", "Ellen", "Kevin", "Kumar", "Ricardo">>
KeyOf(name) == CHOOSE i \in 1..Len(Names) : Names[i] = name
Grades   == {250, 305, 325, 350}
MainGrades(name) == IF name = "Ellen" THEN {350} ELSE Grades

Max(a, b) == IF a >= b THEN a ELSE b

Null    == 0
\* operator= holds a temporary copy next to both trees, hence the room; main()
\* holds two trees of Len(MainKeys) nodes, SpecDeep one tree of MaxDeep nodes.
NodeIds == 1..Max(Max(MaxCopy + MaxNodes, 2 * Len(MainKeys)), MaxDeep)
Keys    == 1..MaxKey
DeepKeys == 1..MaxDeepKey
\* Value is a template parameter that the program copies, returns and prints
\* and never inspects: two values tell apart the entry an operation moved,
\* kept or returned from any other entry.
Values  == {1, 2}
Trees   == {1, 2}

VARIABLES heap, alloc, root, live, last, fault

vars == <<heap, alloc, root, live, last, fault>>

\* ---- struct Node ---------------------------------------------------------
\* Node( key, value ): left_, right_ and parent_ default to nullptr.
Node(key, value) ==
  [key_ |-> key, value_ |-> value, left_ |-> Null, right_ |-> Null, parent_ |-> Null]

\* Contents of an address that holds no node (never read by the program).
Blank == [key_ |-> 0, value_ |-> 0, left_ |-> Null, right_ |-> Null, parent_ |-> Null]

\* The element of a one-element set.  The(\{e(x) : x \in \{d\}\}) is e with x
\* naming the value of d, as a local variable names the value it is
\* initialised with: d is evaluated once.
The(S) == CHOOSE x \in S : TRUE

\* new: the free store hands out the lowest free address.
NewNode(al) == CHOOSE n \in NodeIds \ al : \A m \in NodeIds \ al : n <= m

\* ---- search ---------------------------------------------------------------
\* searchRecursive with the two descents exchanged.
RECURSIVE searchRecursive_Swapped(_, _, _)
searchRecursive_Swapped(h, node, key) ==
  IF node # Null
  THEN IF key = h[node].key_ THEN node
       ELSE IF key < h[node].key_ THEN searchRecursive_Swapped(h, h[node].right_, key)
       ELSE searchRecursive_Swapped(h, h[node].left_, key)
  ELSE Null

\* searchRecursive that goes on to the right of a matching node and returns
\* the deepest match.
RECURSIVE searchRecursive_LastMatch(_, _, _)
searchRecursive_LastMatch(h, node, key) ==
  IF node # Null
  THEN IF key < h[node].key_ THEN searchRecursive_LastMatch(h, h[node].left_, key)
       ELSE LET below == searchRecursive_LastMatch(h, h[node].right_, key)
            IN  IF below # Null THEN below
                ELSE IF key = h[node].key_ THEN node ELSE Null
  ELSE Null

RECURSIVE searchRecursive(_, _, _)
searchRecursive(h, node, key) ==
  IF node # Null
  THEN IF key = h[node].key_ THEN node
       ELSE IF key < h[node].key_ THEN searchRecursive(h, h[node].left_, key)
       ELSE searchRecursive(h, h[node].right_, key)
  ELSE Null

\* search( key ): the value of the node found, or the exception.
search(h, r, key) ==
  LET node == searchRecursive(h, r, key)
  IN  IF node = Null THEN [thrown |-> "Key not found", value |-> 0]
      ELSE [thrown |-> "", value |-> h[node].value_]

\* ---- insert ---------------------------------------------------------------
\* insertRecursive with the comparison <= : equal keys are sent left.
RECURSIVE insertRecursive_EqualLeft(_, _, _)
insertRecursive_EqualLeft(h, parent, nodeToInsert) ==
  IF h[nodeToInsert].key_ <= h[parent].key_
  THEN IF h[parent].left_ = Null
       THEN [h EXCEPT ![parent].left_ = nodeToInsert, ![nodeToInsert].parent_ = parent]
       ELSE insertRecursive_EqualLeft(h, h[parent].left_, nodeToInsert)
  ELSE IF h[parent].right_ = Null
       THEN [h EXCEPT ![parent].right_ = nodeToInsert, ![nodeToInsert].parent_ = parent]
       ELSE insertRecursive_EqualLeft(h, h[parent].right_, nodeToInsert)

\* insertRecursive without nodeToInsert->parent_ = parent at the left
\* insertion point, as in the zyBook algorithm.
RECURSIVE insertRecursive_NoParent(_, _, _)
insertRecursive_NoParent(h, parent, nodeToInsert) ==
  IF h[nodeToInsert].key_ < h[parent].key_
  THEN IF h[parent].left_ = Null
       THEN [h EXCEPT ![parent].left_ = nodeToInsert]
       ELSE insertRecursive_NoParent(h, h[parent].left_, nodeToInsert)
  ELSE IF h[parent].right_ = Null
       THEN [h EXCEPT ![parent].right_ = nodeToInsert, ![nodeToInsert].parent_ = parent]
       ELSE insertRecursive_NoParent(h, h[parent].right_, nodeToInsert)

RECURSIVE insertRecursive(_, _, _)
insertRecursive(h, parent, nodeToInsert) ==
  IF h[nodeToInsert].key_ < h[parent].key_
  THEN IF h[parent].left_ = Null
       THEN [h EXCEPT ![parent].left_ = nodeToInsert, ![nodeToInsert].parent_ = parent]
       ELSE insertRecursive(h, h[parent].left_, nodeToInsert)
  ELSE IF h[parent].right_ = Null
       THEN [h EXCEPT ![parent].right_ = nodeToInsert, ![nodeToInsert].parent_ = parent]
       ELSE insertRecursive(h, h[parent].right_, nodeToInsert)

\* insert that builds the node from the key alone: Node( key ), value_ = Value().
insert_NoValue(h, al, r, key, value) ==
  The({ IF r = Null
        THEN [heap |-> [h EXCEPT ![node] = Node(key, 0)],
              root |-> node, alloc |-> al \cup {node}]
        ELSE [heap |-> insertRecursive([h EXCEPT ![node] = Node(key, 0)], r, node),
              root |-> r, alloc |-> al \cup {node}]
        : node \in {NewNode(al)} })

\* insert( key, value ) on the tree rooted at r: the new heap, root and alloc.
insert(h, al, r, key, value) ==
  The({ IF r = Null
        THEN [heap |-> [h EXCEPT ![node] = Node(key, value)],
              root |-> node, alloc |-> al \cup {node}]
        ELSE [heap |-> insertRecursive([h EXCEPT ![node] = Node(key, value)], r, node),
              root |-> r, alloc |-> al \cup {node}]
        : node \in {NewNode(al)} })

\* ---- remove ---------------------------------------------------------------
\* replaceChild that leaves newChild->parent_ as it was.
replaceChild_StaleParent(h, parent, currentChild, newChild) ==
  IF h[parent].left_ # currentChild /\ h[parent].right_ # currentChild
  THEN [heap |-> h, ok |-> FALSE]
  ELSE [heap |-> IF h[parent].left_ = currentChild
                 THEN [h EXCEPT ![parent].left_  = newChild]
                 ELSE [h EXCEPT ![parent].right_ = newChild],
        ok |-> TRUE]

\* replaceChild that tests parent->left_ only before it returns false.
replaceChild_LeftOnly(h, parent, currentChild, newChild) ==
  IF h[parent].left_ # currentChild
  THEN [heap |-> h, ok |-> FALSE]
  ELSE LET h1 == [h EXCEPT ![parent].left_  = newChild]
           h2 == IF newChild # Null THEN [h1 EXCEPT ![newChild].parent_ = parent] ELSE h1
       IN  [heap |-> h2, ok |-> TRUE]

\* replaceChild( parent, currentChild, newChild ): the new heap and the result.
replaceChild(h, parent, currentChild, newChild) ==
  IF h[parent].left_ # currentChild /\ h[parent].right_ # currentChild
  THEN [heap |-> h, ok |-> FALSE]
  ELSE LET h1 == IF h[parent].left_ = currentChild
                 THEN [h EXCEPT ![parent].left_  = newChild]
                 ELSE [h EXCEPT ![parent].right_ = newChild]
           h2 == IF newChild # Null THEN [h1 EXCEPT ![newChild].parent_ = parent] ELSE h1
       IN  [heap |-> h2, ok |-> TRUE]

\* The successor search of remove( Node * ): leftmost node below succNode.
RECURSIVE Leftmost(_, _)
Leftmost(h, succNode) ==
  IF h[succNode].left_ # Null THEN Leftmost(h, h[succNode].left_) ELSE succNode

\* remove( Node * ) that copies the successor's key but not its value.
RECURSIVE removeNode_KeyOnly(_, _, _)
removeNode_KeyOnly(h, r, node) ==
  IF node = Null THEN [heap |-> h, root |-> r, released |-> <<>>, depth |-> 0,
                       calls |-> <<>>]
  ELSE IF h[node].left_ # Null /\ h[node].right_ # Null
  THEN LET succNode == Leftmost(h, h[node].right_)
           h1 == [h EXCEPT ![node].key_ = h[succNode].key_]
       IN  [removeNode_KeyOnly(h1, r, succNode) EXCEPT !.depth = @ + 1]
  ELSE LET st == IF node = r
                 THEN LET r1 == IF h[node].left_ # Null THEN h[node].left_ ELSE h[node].right_
                      IN  [heap |-> IF r1 # Null THEN [h EXCEPT ![r1].parent_ = Null] ELSE h,
                           root |-> r1, calls |-> <<>>]
                 ELSE IF h[node].left_ # Null
                 THEN [heap |-> replaceChild(h, h[node].parent_, node, h[node].left_).heap,
                       root |-> r,
                       calls |-> <<[parent |-> h[node].parent_,
                                    ok |-> replaceChild(h, h[node].parent_, node,
                                                        h[node].left_).ok]>>]
                 ELSE [heap |-> replaceChild(h, h[node].parent_, node, h[node].right_).heap,
                       root |-> r,
                       calls |-> <<[parent |-> h[node].parent_,
                                    ok |-> replaceChild(h, h[node].parent_, node,
                                                        h[node].right_).ok]>>]
       IN  [heap |-> [st.heap EXCEPT ![node] = Blank], root |-> st.root,
            released |-> <<node>>, depth |-> 0, calls |-> st.calls]

\* remove( Node * ) whose root case takes node->right_ whatever node->left_ is.
RECURSIVE removeNode_RootRightOnly(_, _, _)
removeNode_RootRightOnly(h, r, node) ==
  IF node = Null THEN [heap |-> h, root |-> r, released |-> <<>>, depth |-> 0,
                       calls |-> <<>>]
  ELSE IF h[node].left_ # Null /\ h[node].right_ # Null
  THEN LET succNode == Leftmost(h, h[node].right_)
           h1 == [h EXCEPT ![node].key_   = h[succNode].key_,
                           ![node].value_ = h[succNode].value_]
       IN  [removeNode_RootRightOnly(h1, r, succNode) EXCEPT !.depth = @ + 1]
  ELSE LET st == IF node = r
                 THEN LET r1 == h[node].right_
                      IN  [heap |-> IF r1 # Null THEN [h EXCEPT ![r1].parent_ = Null] ELSE h,
                           root |-> r1, calls |-> <<>>]
                 ELSE IF h[node].left_ # Null
                 THEN [heap |-> replaceChild(h, h[node].parent_, node, h[node].left_).heap,
                       root |-> r,
                       calls |-> <<[parent |-> h[node].parent_,
                                    ok |-> replaceChild(h, h[node].parent_, node,
                                                        h[node].left_).ok]>>]
                 ELSE [heap |-> replaceChild(h, h[node].parent_, node, h[node].right_).heap,
                       root |-> r,
                       calls |-> <<[parent |-> h[node].parent_,
                                    ok |-> replaceChild(h, h[node].parent_, node,
                                                        h[node].right_).ok]>>]
       IN  [heap |-> [st.heap EXCEPT ![node] = Blank], root |-> st.root,
            released |-> <<node>>, depth |-> 0, calls |-> st.calls]

\* remove( Node * ) whose last branch passes node->left_, as the branch before
\* it does, where the code passes node->right_.
RECURSIVE removeNode_LeftTwice(_, _, _)
removeNode_LeftTwice(h, r, node) ==
  IF node = Null THEN [heap |-> h, root |-> r, released |-> <<>>, depth |-> 0,
                       calls |-> <<>>]
  ELSE IF h[node].left_ # Null /\ h[node].right_ # Null
  THEN LET succNode == Leftmost(h, h[node].right_)
           h1 == [h EXCEPT ![node].key_   = h[succNode].key_,
                           ![node].value_ = h[succNode].value_]
       IN  [removeNode_LeftTwice(h1, r, succNode) EXCEPT !.depth = @ + 1]
  ELSE LET st == IF node = r
                 THEN LET r1 == IF h[node].left_ # Null THEN h[node].left_ ELSE h[node].right_
                      IN  [heap |-> IF r1 # Null THEN [h EXCEPT ![r1].parent_ = Null] ELSE h,
                           root |-> r1, calls |-> <<>>]
                 ELSE IF h[node].left_ # Null
                 THEN [heap |-> replaceChild(h, h[node].parent_, node, h[node].left_).heap,
                       root |-> r,
                       calls |-> <<[parent |-> h[node].parent_,
                                    ok |-> replaceChild(h, h[node].parent_, node,
                                                        h[node].left_).ok]>>]
                 ELSE [heap |-> replaceChild(h, h[node].parent_, node, h[node].left_).heap,
                       root |-> r,
                       calls |-> <<[parent |-> h[node].parent_,
                                    ok |-> replaceChild(h, h[node].parent_, node,
                                                        h[node].left_).ok]>>]
       IN  [heap |-> [st.heap EXCEPT ![node] = Blank], root |-> st.root,
            released |-> <<node>>, depth |-> 0, calls |-> st.calls]

\* remove( Node * ) that takes node->right_ as the successor, without the
\* descent to its leftmost node.
RECURSIVE removeNode_NoDescent(_, _, _)
removeNode_NoDescent(h, r, node) ==
  IF node = Null THEN [heap |-> h, root |-> r, released |-> <<>>, depth |-> 0,
                       calls |-> <<>>]
  ELSE IF h[node].left_ # Null /\ h[node].right_ # Null
  THEN LET succNode == h[node].right_
           h1 == [h EXCEPT ![node].key_   = h[succNode].key_,
                           ![node].value_ = h[succNode].value_]
       IN  [removeNode_NoDescent(h1, r, succNode) EXCEPT !.depth = @ + 1]
  ELSE LET st == IF node = r
                 THEN LET r1 == IF h[node].left_ # Null THEN h[node].left_ ELSE h[node].right_
                      IN  [heap |-> IF r1 # Null THEN [h EXCEPT ![r1].parent_ = Null] ELSE h,
                           root |-> r1, calls |-> <<>>]
                 ELSE IF h[node].left_ # Null
                 THEN [heap |-> replaceChild(h, h[node].parent_, node, h[node].left_).heap,
                       root |-> r,
                       calls |-> <<[parent |-> h[node].parent_,
                                    ok |-> replaceChild(h, h[node].parent_, node,
                                                        h[node].left_).ok]>>]
                 ELSE [heap |-> replaceChild(h, h[node].parent_, node, h[node].right_).heap,
                       root |-> r,
                       calls |-> <<[parent |-> h[node].parent_,
                                    ok |-> replaceChild(h, h[node].parent_, node,
                                                        h[node].right_).ok]>>]
       IN  [heap |-> [st.heap EXCEPT ![node] = Blank], root |-> st.root,
            released |-> <<node>>, depth |-> 0, calls |-> st.calls]

\* remove( Node * ): the new heap and root, the sequence of nodes deleted, the
\* number of nested calls of remove( Node * ), and the calls of replaceChild
\* with the parent passed and the result returned (which remove ignores).
RECURSIVE removeNode(_, _, _)
removeNode(h, r, node) ==
  IF node = Null THEN [heap |-> h, root |-> r, released |-> <<>>, depth |-> 0,
                       calls |-> <<>>]
  ELSE IF h[node].left_ # Null /\ h[node].right_ # Null
  THEN LET succNode == Leftmost(h, h[node].right_)
           h1 == [h EXCEPT ![node].key_   = h[succNode].key_,
                           ![node].value_ = h[succNode].value_]
       IN  [removeNode(h1, r, succNode) EXCEPT !.depth = @ + 1]
  ELSE LET st == IF node = r
                 THEN LET r1 == IF h[node].left_ # Null THEN h[node].left_ ELSE h[node].right_
                      IN  [heap |-> IF r1 # Null THEN [h EXCEPT ![r1].parent_ = Null] ELSE h,
                           root |-> r1, calls |-> <<>>]
                 ELSE IF h[node].left_ # Null
                 THEN [heap |-> replaceChild(h, h[node].parent_, node, h[node].left_).heap,
                       root |-> r,
                       calls |-> <<[parent |-> h[node].parent_,
                                    ok |-> replaceChild(h, h[node].parent_, node,
                                                        h[node].left_).ok]>>]
                 ELSE [heap |-> replaceChild(h, h[node].parent_, node, h[node].right_).heap,
                       root |-> r,
                       calls |-> <<[parent |-> h[node].parent_,
                                    ok |-> replaceChild(h, h[node].parent_, node,
                                                        h[node].right_).ok]>>]
       IN  [heap |-> [st.heap EXCEPT ![node] = Blank], root |-> st.root,
            released |-> <<node>>, depth |-> 0, calls |-> st.calls]

\* remove( key ) that falls back on the root when the key is not found.
remove_RootIfAbsent(h, r, key) ==
  LET node == searchRecursive(h, r, key)
  IN  removeNode(h, r, IF node = Null THEN r ELSE node)

\* remove( key )
remove(h, r, key) == removeNode(h, r, searchRecursive(h, r, key))

\* ---- the build with USING_ITERATIVE_FUNCTIONS -----------------------------
\* searchIterative( key ): cur is the loop variable, root_ at the first test.
RECURSIVE searchIterative(_, _, _)
searchIterative(h, cur, key) ==
  IF cur # Null
  THEN IF key = h[cur].key_ THEN cur
       ELSE IF key < h[cur].key_ THEN searchIterative(h, h[cur].left_, key)
       ELSE searchIterative(h, h[cur].right_, key)
  ELSE Null

\* The while loop of insertIterative without node->parent_ = cur at the right
\* insertion point.
RECURSIVE insertLoop_NoParent(_, _, _)
insertLoop_NoParent(h, cur, node) ==
  IF cur = Null THEN h
  ELSE IF h[node].key_ < h[cur].key_
  THEN IF h[cur].left_ = Null
       THEN insertLoop_NoParent([h EXCEPT ![cur].left_ = node, ![node].parent_ = cur], Null, node)
       ELSE insertLoop_NoParent(h, h[cur].left_, node)
  ELSE IF h[cur].right_ = Null
       THEN insertLoop_NoParent([h EXCEPT ![cur].right_ = node], Null, node)
       ELSE insertLoop_NoParent(h, h[cur].right_, node)

\* The while loop of insertIterative: the heap when cur is nullptr.
RECURSIVE insertLoop(_, _, _)
insertLoop(h, cur, node) ==
  IF cur = Null THEN h
  ELSE IF h[node].key_ < h[cur].key_
  THEN IF h[cur].left_ = Null
       THEN insertLoop([h EXCEPT ![cur].left_ = node, ![node].parent_ = cur], Null, node)
       ELSE insertLoop(h, h[cur].left_, node)
  ELSE IF h[cur].right_ = Null
       THEN insertLoop([h EXCEPT ![cur].right_ = node, ![node].parent_ = cur], Null, node)
       ELSE insertLoop(h, h[cur].right_, node)

\* insertIterative( node ): the new heap and root.
insertIterative(h, r, node) ==
  The({ IF r = Null
        THEN [heap |-> [h1 EXCEPT ![node].parent_ = Null], root |-> node]
        ELSE [heap |-> insertLoop(h1, r, node), root |-> r]
        : h1 \in {[h EXCEPT ![node].left_ = Null, ![node].right_ = Null]} })

\* insert( key, value ) as built with USING_ITERATIVE_FUNCTIONS.
insertUsingIterative(h, al, r, key, value) ==
  The({ The({ [heap |-> st.heap, root |-> st.root, alloc |-> al \cup {node}]
              : st \in {insertIterative([h EXCEPT ![node] = Node(key, value)], r, node)} })
        : node \in {NewNode(al)} })

\* remove( key ) as built with USING_ITERATIVE_FUNCTIONS.
removeUsingIterative(h, r, key) == removeNode(h, r, searchIterative(h, r, key))

\* ---- traversal and height -------------------------------------------------
\* printInorder( Node * ): the (key, value) pairs in the order they are printed.
\* A traversal that writes the node before its left subtree.
RECURSIVE inorderVisit_NodeFirst(_, _)
inorderVisit_NodeFirst(h, node) ==
  IF node = Null THEN <<>>
  ELSE <<node>> \o inorderVisit_NodeFirst(h, h[node].left_)
                \o inorderVisit_NodeFirst(h, h[node].right_)

\* The nodes in the order printInorder( Node * ) writes them.
RECURSIVE inorderVisit(_, _)
inorderVisit(h, node) ==
  IF node = Null THEN <<>>
  ELSE inorderVisit(h, h[node].left_) \o <<node>> \o inorderVisit(h, h[node].right_)

\* operator<<( stream, node ) writes the key and the value of a node.
printInorder(h, node) ==
  LET visit == inorderVisit(h, node)
  IN  [i \in 1..Len(visit) |-> [key |-> h[visit[i]].key_, value |-> h[visit[i]].value_]]

\* getHeight( Node * ) that follows the left subtree only.
RECURSIVE getHeight_LeftOnly(_, _)
getHeight_LeftOnly(h, node) ==
  IF node = Null THEN -1
  ELSE 1 + getHeight_LeftOnly(h, h[node].left_)

RECURSIVE getHeight(_, _)
getHeight(h, node) ==
  IF node = Null THEN -1
  ELSE LET leftHeight  == getHeight(h, h[node].left_)
           rightHeight == getHeight(h, h[node].right_)
       IN  1 + Max(leftHeight, rightHeight)

\* ---- copy, assignment, destruction ----------------------------------------
\* makeCopy without the two assignments to parent_.
RECURSIVE makeCopy_NoParent(_, _, _)
makeCopy_NoParent(h, al, originalNode) ==
  IF originalNode = Null THEN [heap |-> h, alloc |-> al, node |-> Null]
  ELSE The({ The({ The({
         [heap  |-> [R.heap EXCEPT ![node].right_ = R.node],
          alloc |-> R.alloc, node |-> node]
         : R \in {makeCopy_NoParent([L.heap EXCEPT ![node].left_ = L.node], L.alloc,
                                    L.heap[originalNode].right_)} })
         : L \in {makeCopy_NoParent([h EXCEPT ![node] = Node(h[originalNode].key_,
                                                             h[originalNode].value_)],
                                    al \cup {node}, h[originalNode].left_)} })
         : node \in {NewNode(al)} })

\* The two statements of makeCopy that set the parent_ of the children of node.
SetParents(h, node) ==
  The({ IF h4[node].right_ # Null THEN [h4 EXCEPT ![h4[node].right_].parent_ = node] ELSE h4
        : h4 \in {IF h[node].left_ # Null
                  THEN [h EXCEPT ![h[node].left_].parent_ = node] ELSE h} })

\* makeCopy that copies the left subtree only: node->right_ stays nullptr.
RECURSIVE makeCopy_NoRight(_, _, _)
makeCopy_NoRight(h, al, originalNode) ==
  IF originalNode = Null THEN [heap |-> h, alloc |-> al, node |-> Null]
  ELSE The({ The({
         [heap  |-> SetParents([L.heap EXCEPT ![node].left_ = L.node], node),
          alloc |-> L.alloc, node |-> node]
         : L \in {makeCopy_NoRight([h EXCEPT ![node] = Node(h[originalNode].key_,
                                                            h[originalNode].value_)],
                                   al \cup {node}, h[originalNode].left_)} })
         : node \in {NewNode(al)} })

\* makeCopy( originalNode ): node is the new node, L and R what the copies of
\* the left and of the right subtree return.
RECURSIVE makeCopy(_, _, _)
makeCopy(h, al, originalNode) ==
  IF originalNode = Null THEN [heap |-> h, alloc |-> al, node |-> Null]
  ELSE The({ The({ The({
         [heap  |-> SetParents([R.heap EXCEPT ![node].right_ = R.node], node),
          alloc |-> R.alloc, node |-> node]
         : R \in {makeCopy([L.heap EXCEPT ![node].left_ = L.node], L.alloc,
                           L.heap[originalNode].right_)} })
         : L \in {makeCopy([h EXCEPT ![node] = Node(h[originalNode].key_,
                                                    h[originalNode].value_)],
                           al \cup {node}, h[originalNode].left_)} })
         : node \in {NewNode(al)} })

\* clear( Node * ) without clear( node->right_ ).
RECURSIVE clearNode_NoRight(_, _)
clearNode_NoRight(h, node) ==
  IF node = Null THEN <<>>
  ELSE clearNode_NoRight(h, h[node].left_) \o <<node>>

\* clear( Node * ): the nodes passed to delete, in the order of the deletes.
RECURSIVE clearNode(_, _)
clearNode(h, node) ==
  IF node = Null THEN <<>>
  ELSE clearNode(h, h[node].left_) \o clearNode(h, h[node].right_) \o <<node>>

Range(s) == {s[i] : i \in 1..Len(s)}

\* The heap after the deletes of a sequence of nodes.
Release(h, rel) == [n \in NodeIds |-> IF n \in Range(rel) THEN Blank ELSE h[n]]

\* clear(): clear( root_ ); root_ = nullptr;
clear(h, al, r) ==
  The({ [heap |-> Release(h, rel), alloc |-> al \ Range(rel), root |-> Null,
         released |-> rel]
        : rel \in {clearNode(h, r)} })

\* operator= that takes the root of its argument: root_ = rhs.root_, no copy.
assign_Shallow(h, al, r, original) ==
  [heap |-> h, alloc |-> al, root |-> original, released |-> <<>>, allocBefore |-> al]

\* operator= without rhs.root_ = root_: rhs keeps the copy and destroys it.
assign_HalfSwap(h, al, r, original) ==
  The({ The({
    [heap |-> dtor.heap, alloc |-> dtor.alloc, root |-> rhs.node,
     released |-> dtor.released, allocBefore |-> rhs.alloc]
    : dtor \in {clear(rhs.heap, rhs.alloc, rhs.node)} })
    : rhs \in {makeCopy(h, al, original)} })

\* operator=( rhs ) on the tree rooted at r, called with the tree rooted at
\* original: rhs is copy-constructed from the argument, the two roots are
\* swapped, and the destructor of rhs clears what this tree held before.
\* rhs is the copy, dtor what ~BinarySearchTree does to rhs once rhs.root_ is
\* r; allocBefore is the allocated set at the time of the deletes.
assign(h, al, r, original) ==
  The({ The({
    [heap |-> dtor.heap, alloc |-> dtor.alloc, root |-> rhs.node,
     released |-> dtor.released, allocBefore |-> rhs.alloc]
    : dtor \in {clear(rhs.heap, rhs.alloc, r)} })
    : rhs \in {makeCopy(h, al, original)} })

\* ---- the free store --------------------------------------------------------
\* delete applied to a sequence of nodes: what the free store reports.
\* Deleting an address twice, or one that holds no node, is a fault.
DeleteFault(al, rel) ==
  \/ \E i \in 1..Len(rel) : rel[i] \notin al
  \/ \E i, j \in 1..Len(rel) : i # j /\ rel[i] = rel[j]

RECURSIVE Reach(_, _)
Reach(h, node) ==
  IF node = Null THEN {}
  ELSE {node} \cup Reach(h, h[node].left_) \cup Reach(h, h[node].right_)

RECURSIVE Preorder(_, _)
Preorder(h, node) ==
  IF node = Null THEN <<>>
  ELSE <<node>> \o Preorder(h, h[node].left_) \o Preorder(h, h[node].right_)

RECURSIVE Dedup(_)
Dedup(s) ==
  IF s = <<>> THEN <<>>
  ELSE LET d == Dedup(SubSeq(s, 1, Len(s) - 1))
       IN  IF s[Len(s)] \in Range(d) THEN d ELSE Append(d, s[Len(s)])

RECURSIVE Ascending(_)
Ascending(S) ==
  IF S = {} THEN <<>>
  ELSE LET m == CHOOSE x \in S : \A y \in S : x <= y
       IN  <<m>> \o Ascending(S \ {m})

RECURSIVE NameOf(_, _, _)
NameOf(order, n, i) == IF order[i] = n THEN i ELSE NameOf(order, n, i + 1)

\* The heap, allocated set and roots with address order[i] renamed to i.
Rename(h, al, r, order) ==
  LET ptr(p) == IF p = Null THEN Null ELSE NameOf(order, p, 1)
  IN  [heap  |-> [i \in NodeIds |->
                    [key_    |-> h[order[i]].key_,
                     value_  |-> h[order[i]].value_,
                     left_   |-> ptr(h[order[i]].left_),
                     right_  |-> ptr(h[order[i]].right_),
                     parent_ |-> ptr(h[order[i]].parent_)]],
       alloc |-> {NameOf(order, n, 1) : n \in al},
       root  |-> [t \in Trees |-> ptr(r[t])]]

\* The canonical naming of the addresses: the nodes of tree 1 in preorder,
\* then those of tree 2, then any other node, then the free addresses.
Canon(h, al, r) ==
  The({ The({ Rename(h, al, r, order)
              : order \in {inTrees \o Ascending(al \ Range(inTrees))
                                   \o Ascending(NodeIds \ (al \cup Range(inTrees)))} })
        : inTrees \in {Dedup(Preorder(h, r[1]) \o Preorder(h, r[2]))} })

Size(t) == Cardinality(Reach(heap, root[t]))

\* node is the node that remove( key ) found and passed to remove( Node * ),
\* calls the calls of replaceChild it made, both with the addresses of the
\* state the call started from.
NoOp == [op |-> "none", tree |-> 0, key |-> 0, value |-> 0, src |-> 0,
         result |-> 0, thrown |-> "", out |-> <<>>, released |-> <<>>, node |-> 0,
         calls |-> <<>>]

\* The state an operation leaves: heap h, allocated set al, roots r.
Becomes(h, al, r) ==
  \E c \in {Canon(h, al, r)} :
    /\ heap'  = c.heap
    /\ alloc' = c.alloc
    /\ root'  = c.root

\* ---- the state machine ----------------------------------------------------
\* main(): BinarySearchTree<...> studentGrades, gradeBook;  both empty.
Init ==
  /\ heap  = [n \in NodeIds |-> Blank]
  /\ alloc = {}
  /\ root  = [t \in Trees |-> Null]
  /\ live  = Trees
  /\ last  = NoOp
  /\ fault = FALSE

\* The caller is between two calls.
Idle == last.op = "none"

Insert(t, key, value) ==
  /\ Idle /\ t \in live
  /\ Cardinality(alloc) < MaxNodes
  /\ \E st \in {insert(heap, alloc, root[t], key, value)} :
       Becomes(st.heap, st.alloc, [root EXCEPT ![t] = st.root])
  /\ last' = [NoOp EXCEPT !.op = "insert", !.tree = t, !.key = key, !.value = value]
  /\ UNCHANGED <<live, fault>>

Remove(t, key) ==
  /\ Idle /\ t \in live
  /\ \E st \in {remove(heap, root[t], key)} :
         /\ Becomes(st.heap, alloc \ Range(st.released), [root EXCEPT ![t] = st.root])
         /\ last'  = [NoOp EXCEPT !.op = "remove", !.tree = t, !.key = key,
                                  !.released = st.released, !.calls = st.calls,
                                  !.node = searchRecursive(heap, root[t], key)]
         /\ fault' = (fault \/ DeleteFault(alloc, st.released))
  /\ UNCHANGED live

Search(t, key) ==
  /\ Idle /\ t \in live
  /\ \E res \in {search(heap, root[t], key)} :
         last' = [NoOp EXCEPT !.op = "search", !.tree = t, !.key = key,
                              !.result = res.value, !.thrown = res.thrown]
  /\ UNCHANGED <<heap, alloc, root, live, fault>>

\* printInorder(): the pairs written to std::cout, in order.
PrintInorder(t) ==
  /\ Idle /\ t \in live
  /\ last' = [NoOp EXCEPT !.op = "printInorder", !.tree = t,
                          !.out = printInorder(heap, root[t])]
  /\ UNCHANGED <<heap, alloc, root, live, fault>>

\* getHeight(): getHeight( root_ )
GetHeight(t) ==
  /\ Idle /\ t \in live
  /\ last' = [NoOp EXCEPT !.op = "getHeight", !.tree = t,
                          !.result = getHeight(heap, root[t])]
  /\ UNCHANGED <<heap, alloc, root, live, fault>>

Clear(t) ==
  /\ Idle /\ t \in live
  /\ \E st \in {clear(heap, alloc, root[t])} :
         /\ Becomes(st.heap, st.alloc, [root EXCEPT ![t] = st.root])
         /\ last'  = [NoOp EXCEPT !.op = "clear", !.tree = t, !.released = st.released]
         /\ fault' = (fault \/ DeleteFault(alloc, st.released))
  /\ UNCHANGED live

\* a = b, a = a included.
Assign(a, b) ==
  /\ Idle /\ a \in live /\ b \in live
  /\ Cardinality(alloc) - Size(a) + Size(b) <= MaxCopy
  /\ \E st \in {assign(heap, alloc, root[a], root[b])} :
         /\ Becomes(st.heap, st.alloc, [root EXCEPT ![a] = st.root])
         /\ last'  = [NoOp EXCEPT !.op = "assign", !.tree = a, !.src = b,
                                  !.released = st.released]
         /\ fault' = (fault \/ DeleteFault(st.allocBefore, st.released))
  /\ UNCHANGED live

\* BinarySearchTree t( original ): the copy constructor on a new object.
CopyConstruct(t, original) ==
  /\ Idle /\ t \notin live /\ original \in live
  /\ Cardinality(alloc) + Size(original) <= MaxCopy
  /\ \E cp \in {makeCopy(heap, alloc, root[original])} :
       Becomes(cp.heap, cp.alloc, [root EXCEPT ![t] = cp.node])
  /\ live' = live \cup {t}
  /\ last' = [NoOp EXCEPT !.op = "copy", !.tree = t, !.src = original]
  /\ UNCHANGED fault

\* BinarySearchTree t;  root_ = nullptr.
Construct(t) ==
  /\ Idle /\ t \notin live
  /\ live' = live \cup {t}
  /\ root' = [root EXCEPT ![t] = Null]
  /\ last' = [NoOp EXCEPT !.op = "construct", !.tree = t]
  /\ UNCHANGED <<heap, alloc, fault>>

\* ~BinarySearchTree(): clear();
Destroy(t) ==
  /\ Idle /\ t \in live
  /\ \E st \in {clear(heap, alloc, root[t])} :
         /\ Becomes(st.heap, st.alloc, [root EXCEPT ![t] = st.root])
         /\ last'  = [NoOp EXCEPT !.op = "destroy", !.tree = t, !.released = st.released]
         /\ fault' = (fault \/ DeleteFault(alloc, st.released))
  /\ live' = live \ {t}

\* The call has completed; the caller goes on to its next statement.
Return ==
  /\ ~Idle
  /\ last' = NoOp
  /\ UNCHANGED <<heap, alloc, root, live, fault>>

Next ==
  \/ \E t \in Trees, key \in Keys, value \in Values : Insert(t, key, value)
  \/ \E t \in Trees, key \in Keys : Remove(t, key)
  \/ \E t \in Trees, key \in Keys : Search(t, key)
  \/ \E t \in Trees : PrintInorder(t)
  \/ \E t \in Trees : GetHeight(t)
  \/ \E t \in Trees : Clear(t)
  \/ \E a \in Trees, b \in Trees : Assign(a, b)
  \/ \E t \in Trees, original \in Trees : CopyConstruct(t, original)
  \/ \E t \in Trees : Construct(t)
  \/ \E t \in Trees : Destroy(t)
  \/ Return

Spec == Init /\ [][Next]_vars

\* ---- inserts in a recorded order ------------------------------------------
\* The callers of this specification insert, as the value of an entry, a
\* number greater than every value stored in either tree: of two entries of
\* a tree, the one with the smaller value was inserted first.
Stamp == 1 + Max(0, CHOOSE m \in {0} \cup {heap[n].value_ : n \in alloc} :
                      \A n \in alloc : heap[n].value_ <= m)

\* No more values than MaxNodes are used.
InsertStamped(t, key) ==
  /\ Stamp <= MaxNodes
  /\ Insert(t, key, Stamp)

NextStamped ==
  \/ \E t \in Trees, key \in Keys : InsertStamped(t, key)
  \/ \E t \in Trees, key \in Keys : Remove(t, key)
  \/ \E t \in Trees, key \in Keys : Search(t, key)
  \/ \E a \in Trees, b \in Trees : Assign(a, b)
  \/ Return

SpecStamped == Init /\ [][NextStamped]_vars

\* ---- one tree, grown deeper ---------------------------------------------
\* studentGrades alone, with insert( key, value ) enabled while the tree has
\* fewer than MaxDeep nodes, and remove( key ).
DeepInsert(key, value) ==
  /\ Idle
  /\ Size(1) < MaxDeep
  /\ \E st \in {insert(heap, alloc, root[1], key, value)} :
       Becomes(st.heap, st.alloc, [root EXCEPT ![1] = st.root])
  /\ last' = [NoOp EXCEPT !.op = "insert", !.tree = 1, !.key = key, !.value = value]
  /\ UNCHANGED <<live, fault>>

NextDeep ==
  \/ \E key \in DeepKeys, value \in Values : DeepInsert(key, value)
  \/ \E key \in DeepKeys : Remove(1, key)
  \/ Return

SpecDeep == Init /\ [][NextDeep]_vars

\* ---- the two builds side by side ---------------------------------------------
\* Tree 1 belongs to a program built with USING_RECURSIVE_FUNCTIONS, tree 2 to
\* one built with USING_ITERATIVE_FUNCTIONS; both programs make the same calls.
BothInsert(key, value) ==
  /\ Size(1) < MaxNodes
  /\ \E st1 \in {insert(heap, alloc, root[1], key, value)} :
       \E st2 \in {insertUsingIterative(st1.heap, st1.alloc, root[2], key, value)} :
         Becomes(st2.heap, st2.alloc, [t \in Trees |-> IF t = 1 THEN st1.root ELSE st2.root])
  /\ last' = [NoOp EXCEPT !.op = "insert", !.key = key, !.value = value]
  /\ UNCHANGED <<live, fault>>

BothRemove(key) ==
  /\ \E st1 \in {remove(heap, root[1], key)} :
       \E st2 \in {removeUsingIterative(st1.heap, root[2], key)} :
         /\ Becomes(st2.heap, alloc \ Range(st1.released \o st2.released),
                    [t \in Trees |-> IF t = 1 THEN st1.root ELSE st2.root])
         /\ last'  = [NoOp EXCEPT !.op = "remove", !.key = key,
                                  !.released = st1.released \o st2.released,
                                  !.calls = st1.calls \o st2.calls,
                                  !.node = searchRecursive(heap, root[1], key)]
         /\ fault' = (fault \/ DeleteFault(alloc, st1.released \o st2.released))
  /\ UNCHANGED live

NextBoth ==
  \/ \E key \in Keys, value \in Values : BothInsert(key, value)
  \/ \E key \in Keys : BothRemove(key)

SpecBoth == Init /\ [][NextBoth]_vars

\* ---- main() as a state machine -------------------------------------------
\* main() runs its statements in order; last is the statement that has just
\* completed.  Tree 1 is studentGrades, tree 2 gradeBook.  The grade of every
\* entry but Ellen's is any of the grades main() uses.
\* studentGrades.insert( MainKeys[i], value );
MainInsert(i, value) ==
  /\ last.op \in {"none", "insert"} /\ Size(1) = i - 1
  /\ value \in MainGrades(MainKeys[i])
  /\ \E st \in {insert(heap, alloc, root[1], KeyOf(MainKeys[i]), value)} :
       Becomes(st.heap, st.alloc, [root EXCEPT ![1] = st.root])
  /\ last' = [NoOp EXCEPT !.op = "insert", !.tree = 1, !.key = KeyOf(MainKeys[i]),
                          !.value = value]
  /\ UNCHANGED <<live, fault>>

\* gradeBook = studentGrades;
MainAssign ==
  /\ last.op = "insert" /\ Size(1) = Len(MainKeys)
  /\ \E st \in {assign(heap, alloc, root[2], root[1])} :
         /\ Becomes(st.heap, st.alloc, [root EXCEPT ![2] = st.root])
         /\ last'  = [NoOp EXCEPT !.op = "assign", !.tree = 2, !.src = 1,
                                  !.released = st.released]
         /\ fault' = (fault \/ DeleteFault(st.allocBefore, st.released))
  /\ UNCHANGED live

\* auto value = studentGrades.search( myKey );
MainSearch ==
  /\ last.op = "assign"
  /\ \E res \in {search(heap, root[1], KeyOf("Ellen"))} :
         last' = [NoOp EXCEPT !.op = "search", !.tree = 1, !.key = KeyOf("Ellen"),
                              !.result = res.value, !.thrown = res.thrown]
  /\ UNCHANGED <<heap, alloc, root, live, fault>>

\* studentGrades.printInorder();
MainPrintInorder ==
  /\ last.op = "search"
  /\ last' = [NoOp EXCEPT !.op = "printInorder", !.tree = 1,
                          !.out = printInorder(heap, root[1])]
  /\ UNCHANGED <<heap, alloc, root, live, fault>>

\* gradeBook.getHeight(), before and after the remove.
MainGetHeight ==
  /\ last.op \in {"printInorder", "remove"}
  /\ last' = [NoOp EXCEPT !.op = "getHeight", !.tree = 2,
                          !.result = getHeight(heap, root[2])]
  /\ UNCHANGED <<heap, alloc, root, live, fault>>

\* gradeBook.remove( "Ellen" );
MainRemove ==
  /\ last.op = "getHeight" /\ Size(2) = Len(MainKeys)
  /\ \E st \in {remove(heap, root[2], KeyOf("Ellen"))} :
         /\ Becomes(st.heap, alloc \ Range(st.released), [root EXCEPT ![2] = st.root])
         /\ last'  = [NoOp EXCEPT !.op = "remove", !.tree = 2, !.key = KeyOf("Ellen"),
                                  !.released = st.released, !.calls = st.calls,
                                  !.node = searchRecursive(heap, root[2], KeyOf("Ellen"))]
         /\ fault' = (fault \/ DeleteFault(alloc, st.released))
  /\ UNCHANGED live

\* The end of main(): gradeBook is destroyed, then studentGrades.
MainExit(t) ==
  /\ \/ t = 2 /\ last.op = "getHeight" /\ Size(2) # Len(MainKeys)
     \/ t = 1 /\ last.op = "destroy" /\ last.tree = 2
  /\ \E st \in {clear(heap, alloc, root[t])} :
         /\ Becomes(st.heap, st.alloc, [root EXCEPT ![t] = st.root])
         /\ last'  = [NoOp EXCEPT !.op = "destroy", !.tree = t, !.released = st.released]
         /\ fault' = (fault \/ DeleteFault(alloc, st.released))
  /\ live' = live \ {t}

MainNext ==
  \/ \E i \in 1..Len(MainKeys), value \in Grades : MainInsert(i, value)
  \/ MainAssign
  \/ MainSearch
  \/ MainPrintInorder
  \/ MainGetHeight
  \/ MainRemove
  \/ \E t \in Trees : MainExit(t)

SpecMain == Init /\ [][MainNext]_vars

\* ---- properties ------------------------------------------------------------
Nodes(t)  == Reach(heap, root[t])
KeysIn(t) == {heap[n].key_ : n \in Nodes(t)}
TwoChildren(n) == heap[n].left_ # Null /\ heap[n].right_ # Null

\* The tree below a node without its addresses: key, value, left and right.
RECURSIVE Shape(_, _)
Shape(h, node) ==
  IF node = Null THEN <<>>
  ELSE <<h[node].key_, h[node].value_, Shape(h, h[node].left_), Shape(h, h[node].right_)>>

\* C1: BST ordering invariant.  In every reachable tree, for every node N,
\* every key in N's left subtree is strictly less than N's key and every key
\* in N's right subtree is greater than or equal to N's key.
C1_Ordering ==
  \A t \in Trees : \A n \in Nodes(t) :
    /\ \A m \in Reach(heap, heap[n].left_)  : heap[m].key_ <  heap[n].key_
    /\ \A m \in Reach(heap, heap[n].right_) : heap[m].key_ >= heap[n].key_

\* A remove has deleted one of three nodes and left a root whose right child
\* holds a key equal to the root's.
C1_Witness ==
  /\ last.op = "remove" /\ last.released # <<>>
  /\ Cardinality(Nodes(last.tree)) = 2
  /\ heap[root[last.tree]].right_ # Null
  /\ heap[heap[root[last.tree]].right_].key_ = heap[root[last.tree]].key_

\* C2: parent-link consistency.  After every completed operation the root's
\* parent link is null, every child's parent link names the node whose child
\* slot holds it, and every non-root node is held by exactly one child slot,
\* that of its parent.
C2_ParentLinks ==
  /\ \A t \in Trees :
       /\ root[t] # Null => heap[root[t]].parent_ = Null
       /\ \A n \in Nodes(t) :
            /\ heap[n].left_  # Null => heap[heap[n].left_].parent_  = n
            /\ heap[n].right_ # Null => heap[heap[n].right_].parent_ = n
  /\ \A n \in alloc \ {root[t] : t \in Trees} :
       /\ Cardinality({p \in alloc : heap[p].left_ = n})
            + Cardinality({p \in alloc : heap[p].right_ = n}) = 1
       /\ heap[n].parent_ \in alloc
       /\ n \in {heap[heap[n].parent_].left_, heap[heap[n].parent_].right_}

\* A remove has deleted the right child of the root and attached that node's
\* own right child, which holds the same key, to the root.
C2_Witness ==
  /\ last.op = "remove" /\ last.released # <<>>
  /\ Cardinality(Nodes(last.tree)) = 2
  /\ heap[root[last.tree]].right_ # Null
  /\ heap[root[last.tree]].key_ < last.key
  /\ heap[heap[root[last.tree]].right_].key_ = last.key

\* C3: the in-order traversal visits every stored entry exactly once and yields
\* the keys in non-decreasing order.
C3_InorderSorted ==
  /\ \A t \in Trees :
       LET out   == printInorder(heap, root[t])
           visit == inorderVisit(heap, root[t])
       IN  /\ \A i \in 1..(Len(out) - 1) : out[i].key <= out[i + 1].key
           /\ \A i, j \in 1..Len(visit) : i # j => visit[i] # visit[j]
  /\ alloc = UNION {Range(inorderVisit(heap, root[t])) : t \in Trees}
  /\ Cardinality(alloc) = Len(printInorder(heap, root[1])) + Len(printInorder(heap, root[2]))

\* printInorder has printed three entries, two of them with the same key.
C3_Witness ==
  /\ last.op = "printInorder" /\ Len(last.out) = 3
  /\ \E i \in 1..2 : last.out[i].key = last.out[i + 1].key
  /\ \E i \in 1..2 : last.out[i].key < last.out[i + 1].key


\* C4: in a tree that holds no entry with key k, after insert(k, v) search(k)
\* returns v; and what search(k) returns stays the same through every later
\* operation other than a remove(k), clear, assignment or destruction of
\* that tree.
C4_SearchAfterInsert ==
  [][\A t \in Trees, k \in Keys :
       /\ (last'.op = "insert" /\ last'.tree = t /\ last'.key = k /\ k \notin KeysIn(t))
            => search(heap', root'[t], k) = [thrown |-> "", value |-> last'.value]
       /\ ( /\ search(heap, root[t], k).thrown = ""
            /\ ~(last'.tree = t /\ ( \/ last'.op \in {"clear", "assign", "destroy"}
                                     \/ last'.op = "remove" /\ last'.key = k )) )
            => search(heap', root'[t], k) = search(heap, root[t], k)]_vars

\* An insert has put a key that the tree did not hold two levels below the
\* root, where search finds it.
C4_Witness ==
  /\ last.op = "insert"
  /\ Cardinality({n \in Nodes(last.tree) : heap[n].key_ = last.key}) = 1
  /\ LET n == searchRecursive(heap, root[last.tree], last.key)
     IN  /\ n # Null /\ heap[n].value_ = last.value
         /\ heap[n].parent_ # Null /\ heap[heap[n].parent_].parent_ # Null

\* C5: search(key) throws "Key not found" exactly when no node of the tree
\* holds the key, returns the value of a node with that key otherwise, and
\* changes no node, link or root.
C5_SearchNotFound ==
  [][last'.op = "search" =>
       /\ last'.thrown \in {"", "Key not found"}
       /\ (last'.thrown = "Key not found") <=> (last'.key \notin KeysIn(last'.tree))
       /\ last'.thrown = "" =>
            \E n \in Nodes(last'.tree) :
              heap[n].key_ = last'.key /\ heap[n].value_ = last'.result
       /\ UNCHANGED <<heap, alloc, root, live, fault>>]_vars

\* search has thrown on a tree that holds a smaller and a larger key below the
\* root.
C5_Witness ==
  /\ last.op = "search" /\ last.thrown = "Key not found"
  /\ Cardinality(Nodes(last.tree)) >= 3
  /\ \E a, b \in KeysIn(last.tree) : a < last.key /\ last.key < b

\* C6: remove(key) when no node holds key raises no error and leaves the root,
\* every node and every link unchanged, hence the in-order sequence and the
\* height.
C6_RemoveAbsent ==
  [][(last'.op = "remove" /\ last'.key \notin KeysIn(last'.tree)) =>
       /\ last'.thrown = "" /\ last'.released = <<>>
       /\ UNCHANGED <<heap, alloc, root, live, fault>>
       /\ \A t \in Trees :
            /\ printInorder(heap', root'[t]) = printInorder(heap, root[t])
            /\ getHeight(heap', root'[t]) = getHeight(heap, root[t])]_vars

\* remove has been called with a key that lies between the keys of a tree of
\* at least three nodes.
C6_Witness ==
  /\ last.op = "remove" /\ last.released = <<>>
  /\ Cardinality(Nodes(last.tree)) >= 3
  /\ \E a, b \in KeysIn(last.tree) : a < last.key /\ last.key < b

\* C7: remove(key) when a node holds key removes exactly one entry: the node
\* count drops by one, and the in-order sequence of pairs afterwards is the
\* sequence before with the entry of the first-found node deleted, which is
\* the first entry with that key.
C7_RemovePresent ==
  [][(last'.op = "remove" /\ last'.key \in KeysIn(last'.tree)) =>
       LET t      == last'.tree
           visit  == inorderVisit(heap, root[t])
           found  == searchRecursive(heap, root[t], last'.key)
           idx    == CHOOSE i \in 1..Len(visit) : visit[i] = found
           before == printInorder(heap, root[t])
           after  == printInorder(heap', root'[t])
       IN  /\ Cardinality(Reach(heap', root'[t])) = Cardinality(Nodes(t)) - 1
           /\ Len(after) = Len(before) - 1
           /\ after = [i \in 1..(Len(before) - 1) |->
                         IF i < idx THEN before[i] ELSE before[i + 1]]
           /\ before[idx].key = last'.key
           /\ \A i \in 1..(idx - 1) : before[i].key # last'.key]_vars

\* remove has been applied to a root with two children whose successor holds
\* the same key: the root keeps its left child and now holds the successor's
\* entry, with the other value.
C7_Witness ==
  /\ last.op = "remove" /\ Len(last.released) = 1
  /\ Cardinality(Nodes(last.tree)) = 2
  /\ heap[root[last.tree]].left_ # Null
  /\ heap[root[last.tree]].key_ = last.key


\* C8: copy independence.  An insert, remove or clear applied to one tree
\* leaves the in-order sequence and the height of the other tree unchanged,
\* whether the one is a copy of the other or the other a copy of the one.
C8_CopyIndependence ==
  [][\A t \in Trees :
       (last'.op \in {"insert", "remove", "clear"} /\ last'.tree # t) =>
         /\ printInorder(heap', root'[t]) = printInorder(heap, root[t])
         /\ getHeight(heap', root'[t]) = getHeight(heap, root[t])]_vars

\* A remove has deleted a node from a tree that was equal to the other tree,
\* which still has its three nodes.
C8_Witness ==
  /\ last.op = "remove" /\ Len(last.released) = 1
  /\ \E t \in Trees :
       /\ t # last.tree /\ Cardinality(Nodes(t)) = 3 /\ TwoChildren(root[t])
       /\ Cardinality(Nodes(last.tree)) = 2
       /\ \E i \in 1..3 :
            printInorder(heap, root[last.tree]) =
              [j \in 1..2 |-> printInorder(heap, root[t])[IF j < i THEN j ELSE j + 1]]

\* C9: a deep copy (copy construction or assignment) has the shape of the
\* source with equal key and value at every position, shares no node with the
\* source, and its parent links point to nodes of the copy, the root's being
\* null.
C9_DeepCopy ==
  [][last'.op \in {"assign", "copy"} =>
       LET a    == last'.tree
           b    == last'.src
           copy == Reach(heap', root'[a])
       IN  /\ Shape(heap', root'[a]) = Shape(heap, root[b])
           /\ a # b => copy \cap Reach(heap', root'[b]) = {}
           /\ copy \subseteq alloc'
           /\ root'[a] # Null => heap'[root'[a]].parent_ = Null
           /\ \A n \in copy \ {root'[a]} :
                /\ heap'[n].parent_ \in copy
                /\ n \in {heap'[heap'[n].parent_].left_, heap'[heap'[n].parent_].right_}]_vars

\* An assignment has replaced a non-empty tree by a copy of another tree whose
\* root has two children.
C9_Witness ==
  /\ last.op = "assign" /\ last.tree # last.src
  /\ last.released # <<>>
  /\ root[last.tree] # Null /\ TwoChildren(root[last.tree])
  /\ Shape(heap, root[last.tree]) = Shape(heap, root[last.src])

\* C10: after a = b (a = a included) a holds a copy of what b held before, b is
\* unchanged, every node a owned before has been deleted exactly once, no node
\* is leaked and no link or root refers to a deleted node.
C10_Assignment ==
  [][last'.op = "assign" =>
       LET a   == last'.tree
           b   == last'.src
           old == Reach(heap, root[a])
       IN  /\ Shape(heap', root'[a]) = Shape(heap, root[b])
           /\ \A t \in Trees \ {a} : Shape(heap', root'[t]) = Shape(heap, root[t])
           /\ Range(last'.released) = old
           /\ Len(last'.released) = Cardinality(old)
           /\ ~fault'
           /\ alloc' = UNION {Reach(heap', root'[t]) : t \in Trees}
           /\ Cardinality(alloc') = Cardinality(alloc) - Cardinality(old)
                                      + Cardinality(Reach(heap, root[b]))
           /\ \A n \in alloc' :
                {heap'[n].left_, heap'[n].right_, heap'[n].parent_} \subseteq alloc' \cup {Null}]_vars

\* A tree of three nodes, the root with two children, has been assigned to
\* itself.
C10_Witness ==
  /\ last.op = "assign" /\ last.tree = last.src
  /\ Len(last.released) = 3
  /\ Cardinality(Nodes(last.tree)) = 3
  /\ TwoChildren(root[last.tree])

\* The children of a set of nodes, and the number of edges of the longest
\* downward path that starts in a set of nodes (level by level).
Children(h, S) == ({h[n].left_ : n \in S} \cup {h[n].right_ : n \in S}) \ {Null}

RECURSIVE LongestPath(_, _)
LongestPath(h, S) == IF S = {} THEN -1 ELSE 1 + LongestPath(h, Children(h, S))

\* C11: getHeight() returns -1 for the empty tree, 0 for a tree of one node
\* and in general the number of edges of the longest path from the root to a
\* leaf, for every reachable tree; getHeight changes nothing.
C11_Height ==
  [][last'.op = "getHeight" =>
       LET t == last'.tree
       IN  /\ root[t] = Null => last'.result = -1
           /\ Cardinality(Nodes(t)) = 1 => last'.result = 0
           /\ last'.result = LongestPath(heap, {root[t]} \ {Null})
           /\ root[t] # Null =>
                last'.result = 1 + Max(getHeight(heap, heap[root[t]].left_),
                                       getHeight(heap, heap[root[t]].right_))
           /\ last'.thrown = ""
           /\ UNCHANGED <<heap, alloc, root, live, fault>>]_vars

\* getHeight has returned 2 for a tree of three nodes whose root has no left
\* child.
C11_Witness ==
  /\ last.op = "getHeight" /\ last.result = 2
  /\ heap[root[last.tree]].left_ = Null
  /\ Cardinality(Nodes(last.tree)) = 3

\* The keys of a printed sequence.
KeysOf(out) == [i \in 1..Len(out) |-> out[i].key]

\* C12: the grade-book scenario.  After the inserts of Ricardo, Ellen, Chen,
\* Kevin, Kumar in that order the tree has height 3, search("Ellen") is 3.5
\* and the in-order keys are Chen, Ellen, Kevin, Kumar, Ricardo; after the
\* tree is assigned to a second tree and "Ellen" removed from the second tree,
\* the second tree's height is 2 and the first tree's height still 3.
C12_GradeBook ==
  [][/\ last'.op = "assign" =>
          /\ getHeight(heap, root[1]) = 3
          /\ search(heap, root[1], KeyOf("Ellen")) = [thrown |-> "", value |-> 350]
          /\ KeysOf(printInorder(heap, root[1])) = [i \in 1..Len(Names) |-> KeyOf(Names[i])]
     /\ last'.op = "search" => last'.thrown = "" /\ last'.result = 350
     /\ last'.op = "printInorder" =>
          KeysOf(last'.out) = <<KeyOf("Chen"), KeyOf("Ellen"), KeyOf("Kevin"),
                                KeyOf("Kumar"), KeyOf("Ricardo")>>
     /\ (last.op = "printInorder" /\ last'.op = "getHeight") =>
          last'.result = 3 /\ getHeight(heap', root'[1]) = 3
     /\ last'.op = "remove" =>
          getHeight(heap', root'[2]) = 2 /\ getHeight(heap', root'[1]) = 3
     /\ (last.op = "remove" /\ last'.op = "getHeight") =>
          last'.result = 2 /\ getHeight(heap', root'[1]) = 3]_vars

\* main() has reached its last statement: gradeBook holds four entries after
\* the remove and its height has been asked for, studentGrades holds five.
C12_Witness ==
  /\ last.op = "getHeight" /\ last.tree = 2 /\ last.result = 2
  /\ Cardinality(Nodes(1)) = 5 /\ Cardinality(Nodes(2)) = 4
  /\ KeyOf("Ellen") \notin KeysIn(2) /\ KeyOf("Ellen") \in KeysIn(1)

\* The numbers of remove( key ) calls, each with a key the tree still holds,
\* after which the tree rooted at r is empty: one number for every choice of
\* the keys.
RECURSIVE DrainCounts(_, _)
DrainCounts(h, r) ==
  IF r = Null THEN {0}
  ELSE UNION { {1 + c : c \in DrainCounts(st.heap, st.root)}
               : st \in {remove(h, r, k) : k \in {h[n].key_ : n \in Reach(h, r)}} }

\* C13: the root is absent exactly when the tree holds no entry; insert on an
\* empty tree leaves one entry at a root without parent; and from a tree of n
\* entries, removing n times a key that the tree still holds, whichever keys,
\* leaves the empty tree, of height -1, and no fewer removes do.
C13_LifeCycle ==
  /\ [](/\ (\A t \in Trees : root[t] = Null) <=> (alloc = {})
        /\ \A t \in Trees : (root[t] = Null) <=> (alloc = Nodes(3 - t))
        /\ \A t \in Trees : DrainCounts(heap, root[t]) = {Cardinality(Nodes(t))})
  /\ [][\A t \in Trees :
         /\ (last'.op = "insert" /\ last'.tree = t /\ root[t] = Null) =>
              /\ root'[t] # Null /\ heap'[root'[t]].parent_ = Null
              /\ Cardinality(Reach(heap', root'[t])) = 1
              /\ Cardinality(alloc') = Cardinality(alloc) + 1
         /\ (last'.op = "remove" /\ last'.tree = t /\ last'.key \in KeysIn(t)) =>
              /\ Cardinality(alloc') = Cardinality(alloc) - 1
              /\ (Cardinality(Nodes(t)) = 1) <=> (root'[t] = Null)
              /\ root'[t] = Null => getHeight(heap', root'[t]) = -1]_vars

\* A remove has taken the last entry of a tree that the other tree, a copy
\* made when the tree held three entries, still holds.
C13_Witness ==
  /\ last.op = "remove" /\ Len(last.released) = 1
  /\ root[last.tree] = Null
  /\ Cardinality(Nodes(3 - last.tree)) = 3
  /\ last.key \in KeysIn(3 - last.tree)

\* C14: node ownership.  In every reachable state the allocated nodes are
\* exactly the nodes reachable from the roots of the live trees, no node is
\* reachable from two trees, no root and no link of an allocated node refers
\* to a released node, and no node has been released twice.
C14_Ownership ==
  /\ alloc = UNION {Reach(heap, root[t]) : t \in live}
  /\ \A t \in Trees \ live : root[t] = Null
  /\ \A t, u \in Trees : t # u => Reach(heap, root[t]) \cap Reach(heap, root[u]) = {}
  /\ \A t \in Trees : root[t] \in alloc \cup {Null}
  /\ \A n \in alloc :
       {heap[n].left_, heap[n].right_, heap[n].parent_} \subseteq alloc \cup {Null}
  /\ \A n \in NodeIds \ alloc : heap[n] = Blank
  /\ ~fault
  /\ \A i, j \in 1..Len(last.released) : i # j => last.released[i] # last.released[j]

\* A tree of three nodes has been destroyed while the other tree, a copy of
\* it, holds its own three nodes.
C14_Witness ==
  /\ last.op = "destroy" /\ Len(last.released) = 3
  /\ last.tree \notin live
  /\ Cardinality(Nodes(3 - last.tree)) = 3
  /\ alloc = Nodes(3 - last.tree)

\* C15: two-children removal.  When remove targets a node N with both
\* children, N is not released and keeps its parent and its left child; N's
\* key and value become those of the leftmost node S of N's right subtree; S
\* has no left child, the nested remove( S ) is the only nested call and S the
\* only node released; S's right child takes S's place in the child slot of
\* S's former parent, with its parent link updated; nothing else changes.
\* S is N's right child, or the left child of a node below it.
C15_TwoChildren ==
  [][(/\ last'.op = "remove"
      /\ searchRecursive(heap, root[last'.tree], last'.key) # Null
      /\ TwoChildren(searchRecursive(heap, root[last'.tree], last'.key))) =>
       LET t  == last'.tree
           N  == searchRecursive(heap, root[t], last'.key)
           S  == inorderVisit(heap, heap[N].right_)[1]
           P  == heap[S].parent_
           C  == heap[S].right_
           st == remove(heap, root[t], last'.key)
           h2 == st.heap
       IN  /\ last'.node = N
           /\ last'.released = <<S>> /\ st.released = <<S>> /\ S # N
           /\ st.depth = 1
           /\ heap[S].left_ = Null
           /\ IF P = N THEN heap[N].right_ = S
                       ELSE heap[P].left_ = S /\ P \in Reach(heap, heap[N].right_)
           /\ st.calls = <<[parent |-> P, ok |-> TRUE]>>
           /\ st.root = root[t]
           /\ h2[N].parent_ = heap[N].parent_ /\ h2[N].left_ = heap[N].left_
           /\ h2[N].key_ = heap[S].key_ /\ h2[N].value_ = heap[S].value_
           /\ h2[S] = Blank
           /\ IF heap[P].left_ = S THEN h2[P].left_ = C /\ h2[P].right_ = heap[P].right_
                                   ELSE h2[P].right_ = C /\ h2[P].left_ = heap[P].left_
           /\ C # Null => h2[C] = [heap[C] EXCEPT !.parent_ = P]
           /\ \A m \in NodeIds \ {N, S, P, C} : h2[m] = heap[m]
           /\ heap' = Canon(h2, alloc \ {S}, [root EXCEPT ![t] = st.root]).heap]_vars

\* remove has found a node N that has a parent and two children, and has
\* deleted its successor S, which was the left child of a node P below N's
\* right child and had a right child: N, still below its parent, holds a key
\* greater than the key removed, and P has S's right child as its left
\* child.  N and P come before S in preorder and so keep their addresses.
C15_Witness ==
  /\ last.op = "remove" /\ last.node # Null
  /\ Len(last.released) = 1 /\ last.released[1] # last.node
  /\ Len(last.calls) = 1 /\ last.calls[1].parent # last.node
  /\ heap[last.node].parent_ # Null
  /\ heap[last.node].left_ # Null /\ heap[last.node].right_ # Null
  /\ heap[last.node].key_ > last.key
  /\ heap[last.calls[1].parent].left_ # Null
  /\ heap[heap[last.calls[1].parent].left_].parent_ = last.calls[1].parent
  /\ Cardinality(Nodes(last.tree)) = MaxDeep - 1

\* The position of a node in a sequence of nodes.
IndexOf(visit, n) == CHOOSE i \in 1..Len(visit) : visit[i] = n

\* C16 as claimed: in the two-children case the successor node that remove
\* selects holds the smallest key greater than the key of the node being
\* removed.
C16_SuccessorGreater ==
  [][(last'.op = "remove" /\ last'.node # Null /\ TwoChildren(last'.node)) =>
       LET t == last'.tree
           N == last'.node
           S == last'.released[1]
       IN  /\ heap[S].key_ > heap[N].key_
           /\ \A m \in Nodes(t) : heap[m].key_ > heap[N].key_ => heap[S].key_ <= heap[m].key_]_vars

\* C16, amended: in the two-children case the successor node that remove
\* selects is the node that follows the removed node in the in-order
\* sequence; its key is the smallest key greater than or equal to the removed
\* node's key among the other nodes of the tree: equal to it when another
\* node holds that key, and the smallest strictly greater key otherwise.
C16_Successor ==
  [][(last'.op = "remove" /\ last'.node # Null /\ TwoChildren(last'.node)) =>
       LET t     == last'.tree
           N     == last'.node
           S     == last'.released[1]
           visit == inorderVisit(heap, root[t])
           dup   == \E m \in Nodes(t) \ {N} : heap[m].key_ = heap[N].key_
       IN  /\ Len(last'.released) = 1 /\ S \in Nodes(t) \ {N}
           /\ IndexOf(visit, N) < Len(visit) /\ visit[IndexOf(visit, N) + 1] = S
           /\ heap[S].key_ >= heap[N].key_
           /\ \A m \in Nodes(t) \ {N} :
                heap[m].key_ >= heap[N].key_ => heap[S].key_ <= heap[m].key_
           /\ dup <=> heap[S].key_ = heap[N].key_
           /\ ~dup => /\ heap[S].key_ > heap[N].key_
                       /\ \A m \in Nodes(t) :
                            heap[m].key_ > heap[N].key_ => heap[S].key_ <= heap[m].key_]_vars

\* remove has found a node with two children whose key no other node held,
\* and has deleted its successor, reached by a descent to the left below the
\* node's right child: the node now holds a key greater than the key removed
\* and smaller than the key of its right child.
C16_Witness ==
  /\ last.op = "remove" /\ last.node # Null
  /\ Len(last.released) = 1 /\ last.released[1] # last.node
  /\ Len(last.calls) = 1 /\ last.calls[1].parent # last.node
  /\ heap[last.node].key_ > last.key
  /\ heap[last.node].left_ # Null /\ heap[last.node].right_ # Null
  /\ heap[heap[last.node].left_].key_ < last.key
  /\ heap[heap[last.node].right_].key_ > heap[last.node].key_

\* The nodes of a tree that hold a key, and the least of a set of numbers.
Holders(t, k) == {n \in Nodes(t) : heap[n].key_ = k}
Least(S) == CHOOSE x \in S : \A y \in S : x <= y

\* C17: duplicate keys resolve to the oldest entry.  In every reachable tree,
\* for every key k that the tree holds, the other nodes with key k lie in the
\* right subtree of the node search finds, the entries with equal keys are
\* printed in the order of their insertion, search( k ) returns the value of
\* the entry with key k inserted first among those not removed, and
\* remove( k ) removes that entry and no other.
C17_OldestFirst ==
  /\ [](\A t \in Trees : \A k \in KeysIn(t) :
          LET found == searchRecursive(heap, root[t], k)
              out   == printInorder(heap, root[t])
          IN  /\ Holders(t, k) \ {found} \subseteq Reach(heap, heap[found].right_)
              /\ search(heap, root[t], k).value = Least({heap[n].value_ : n \in Holders(t, k)})
              /\ \A i, j \in 1..Len(out) :
                   (i < j /\ out[i].key = out[j].key) => out[i].value < out[j].value)
  /\ [][/\ (last'.op = "search" /\ last'.thrown = "") =>
              last'.result = Least({heap[n].value_ : n \in Holders(last'.tree, last'.key)})
        /\ (last'.op = "remove" /\ last'.key \in KeysIn(last'.tree)) =>
              LET t      == last'.tree
                  before == {<<heap[n].key_, heap[n].value_>> : n \in Nodes(t)}
                  after  == {<<heap'[n].key_, heap'[n].value_>> : n \in Reach(heap', root'[t])}
                  oldest == Least({heap[n].value_ : n \in Holders(t, last'.key)})
              IN  after = before \ {<<last'.key, oldest>>}]_vars

\* remove has taken the oldest of three entries with the same key: the two
\* entries inserted after it remain, the older of them at the root.
C17_Witness ==
  /\ last.op = "remove" /\ Len(last.released) = 1
  /\ Cardinality(Holders(last.tree, last.key)) = 2
  /\ heap[root[last.tree]].key_ = last.key
  /\ \A n \in Holders(last.tree, last.key) : heap[n].value_ > 1
  /\ heap[root[last.tree]].value_ = 2

\* The tree below a node with, for every node, its key, its value and whether
\* its parent link names the node that holds it (parent).
RECURSIVE ShapeP(_, _, _)
ShapeP(h, node, parent) ==
  IF node = Null THEN <<>>
  ELSE <<h[node].key_, h[node].value_, h[node].parent_ = parent,
         ShapeP(h, h[node].left_, node), ShapeP(h, h[node].right_, node)>>

\* C18: the iterative and the recursive variants are equivalent.  After every
\* sequence of insert and remove calls, the tree driven through
\* insertIterative and searchIterative and the tree driven through
\* insertRecursive and searchRecursive have the same shape, keys, values and
\* parent links, and for every key the two search variants return the same
\* node of a tree, or both none.
C18_Equivalent ==
  /\ ShapeP(heap, root[1], Null) = ShapeP(heap, root[2], Null)
  /\ Reach(heap, root[1]) \cap Reach(heap, root[2]) = {}
  /\ \A t \in Trees : \A k \in Keys :
       /\ searchIterative(heap, root[t], k) = searchRecursive(heap, root[t], k)
       /\ removeUsingIterative(heap, root[t], k) = remove(heap, root[t], k)
  /\ \A t \in Trees : \A k \in Keys, v \in Values :
       Cardinality(alloc) < Cardinality(NodeIds) =>
         insertUsingIterative(heap, alloc, root[t], k, v) = insert(heap, alloc, root[t], k, v)
  /\ ~fault

\* Both programs have removed a key found at a node with two children from
\* trees of three entries, and both trees hold two entries.
C18_Witness ==
  /\ last.op = "remove" /\ last.node # Null
  /\ Len(last.released) = 2 /\ last.released[1] # last.node
  /\ Cardinality(Nodes(1)) = 2 /\ Cardinality(Nodes(2)) = 2
  /\ heap[root[2]].left_ # Null

\* The nodes passed when descending from cur with a key: left where the key is
\* strictly less than the node's key, right otherwise, down to an absent child.
RECURSIVE Descent(_, _, _)
Descent(h, cur, key) ==
  IF cur = Null THEN <<>>
  ELSE <<cur>> \o Descent(h, IF key < h[cur].key_ THEN h[cur].left_ ELSE h[cur].right_, key)

\* C19: insert( key, value ) adds exactly one node, as a leaf, at the slot
\* reached by descending from the root, left iff key is strictly less than
\* the node's key and right otherwise; the new node's parent link names the
\* owner of the slot; no key, value, parent link or other child slot of a node
\* that existed before changes, nor the root of a non-empty tree.
C19_InsertLeaf ==
  [][last'.op = "insert" =>
       LET t    == last'.tree
           k    == last'.key
           st   == insert(heap, alloc, root[t], k, last'.value)
           new  == CHOOSE n \in st.alloc \ alloc : TRUE
           path == Descent(heap, root[t], k)
           P    == IF path = <<>> THEN Null ELSE path[Len(path)]
       IN  /\ Cardinality(st.alloc \ alloc) = 1 /\ alloc \subseteq st.alloc
           /\ new \notin UNION {Nodes(u) : u \in Trees}
           /\ st.heap[new] = [key_ |-> k, value_ |-> last'.value, left_ |-> Null,
                              right_ |-> Null, parent_ |-> P]
           /\ root[t] = Null => st.root = new
           /\ root[t] # Null =>
                /\ st.root = root[t]
                /\ IF k < heap[P].key_
                   THEN /\ heap[P].left_ = Null
                        /\ st.heap[P] = [heap[P] EXCEPT !.left_ = new]
                   ELSE /\ heap[P].right_ = Null
                        /\ st.heap[P] = [heap[P] EXCEPT !.right_ = new]
           /\ \A m \in NodeIds \ {new, P} : st.heap[m] = heap[m]
           /\ heap' = Canon(st.heap, st.alloc, [root EXCEPT ![t] = st.root]).heap
           /\ Cardinality(alloc') = Cardinality(alloc) + 1
           /\ \A u \in Trees \ {t} : Shape(heap', root'[u]) = Shape(heap, root[u])
           /\ UNCHANGED <<live, fault>>]_vars

\* insert has put a key that the tree already held below the node holding
\* it, as a right child two levels below the root.
C19_Witness ==
  /\ last.op = "insert"
  /\ \E n \in Nodes(last.tree) :
       /\ heap[n].key_ = last.key /\ heap[n].value_ = last.value
       /\ heap[n].left_ = Null /\ heap[n].right_ = Null
       /\ heap[n].parent_ # Null
       /\ heap[heap[n].parent_].right_ = n
       /\ heap[heap[n].parent_].key_ = last.key
       /\ heap[heap[n].parent_].value_ # last.value
       /\ heap[heap[n].parent_].parent_ # Null
       /\ heap[heap[heap[n].parent_].parent_].left_ = heap[n].parent_

\* C20: replaceChild never fails inside remove.  At every call of
\* replaceChild that remove( node ) makes, node->parent_ is not null and node
\* is its left or its right child, so that replaceChild returns true; and
\* after the delete of node no root and no child slot or parent link of a
\* node refers to the deleted node.
C20_ReplaceChild ==
  [][last'.op = "remove" =>
       LET t  == last'.tree
           st == remove(heap, root[t], last'.key)
       IN  /\ last'.calls = st.calls /\ Len(st.calls) <= 1
           /\ \A i \in 1..Len(st.calls) :
                LET X == st.released[1]
                    P == st.calls[i].parent
                IN  /\ P # Null /\ P \in Nodes(t) /\ P = heap[X].parent_
                    /\ X \in {heap[P].left_, heap[P].right_}
                    /\ st.calls[i].ok
                    /\ X # root[t]
           /\ (st.released # <<>> /\ st.calls = <<>>) =>
                /\ st.released[1] = root[t]
                /\ ~TwoChildren(root[t])
           /\ \A i \in 1..Len(st.released) :
                /\ st.root # st.released[i]
                /\ \A m \in alloc \ {st.released[i]} :
                     st.released[i] \notin {st.heap[m].left_, st.heap[m].right_,
                                            st.heap[m].parent_}
           /\ \A m \in alloc' :
                {heap'[m].left_, heap'[m].right_, heap'[m].parent_} \subseteq alloc' \cup {Null}
           /\ \A u \in Trees : root'[u] \in alloc' \cup {Null}
           /\ ~fault']_vars

\* remove has found a node with two children and deleted its right child, a
\* leaf, through replaceChild called with the node found as the parent, which
\* returned true.
C20_Witness ==
  /\ last.op = "remove" /\ last.node # Null
  /\ Len(last.released) = 1 /\ last.released[1] # last.node
  /\ last.calls = <<[parent |-> last.node, ok |-> TRUE]>>
  /\ Cardinality(Nodes(last.tree)) = 2

====
